---------------------------- MODULE Spec2Model ----------------------------
(***************************************************************************)
(* A model of the contract question-answering pipeline:                   *)
(*   src/src/data_processor.py  DataProcessor   (load, clean, chunk)      *)
(*   src/src/embeddings.py      EmbeddingManager (encode, build, search,  *)
(*                                                save, load)             *)
(*   src/src/rag_system.py      ContractRAG      (build_knowledge_base,   *)
(*                                                load_knowledge_base,    *)
(*                                                retrieve_context,       *)
(*                                                answer_question)        *)
(*   src/app.py                 ask_question     (Flask handler)          *)
(*   src/ragapp/views.py        ask, AskForm     (Django view and form)   *)
(*                                                                         *)
(* Specifications: Spec (the life of the knowledge base, with faults),     *)
(* SpecQuery (queries under every configuration), SpecContext (chunks      *)
(* longer than the context part of an answer), SpecChunk (the chunker by   *)
(* itself), SpecPaths (the persisted locations and the files an earlier    *)
(* process left), SpecWeb (the web handlers), SpecRace (an upload request   *)
(* building while others search), SpecCrash (saves that stop between the   *)
(* two files), SpecClean (clean_text by itself).                           *)
(*                                                                         *)
(* Strings are sequences of one-character strings.  Vectors are sequences  *)
(* of integers, distances are squared Euclidean distances (integers) and   *)
(* a similarity 1/(1+d) is kept exact, as the pair <<numerator,            *)
(* denominator>>.  A Python exception is an outcome value of the operation *)
(* that raised it.                                                         *)
(***************************************************************************)
EXTENDS Integers, Sequences, FiniteSets, TLC

VARIABLES
    config,     \* ContractRAG.config (read from the configuration, never written)
    index,      \* EmbeddingManager.index: NoIndex (None) or a flat L2 index
    metadata,   \* EmbeddingManager.metadata: the list of chunk records
    dirs,       \* the parent directories of the persisted files that exist
    indexFile,  \* the file at faiss_index_path: absent, corrupt or its content
    metaFile,   \* the file at metadata_path: absent, corrupt or its content
    completed,  \* history: a build_index or load_index call has returned normally
                \* on this instance
    upload,     \* the build_knowledge_base of a concurrent upload request: the
                \* step of build_index it has reached and the chunks it holds
    saver,      \* history: the index and metadata of the instance whose save_index
                \* wrote the two files, when the last save_index ran to its end
    last        \* the last call on the instance: its arguments and what it gave back

vars ==
    <<config, index, metadata, dirs, indexFile, metaFile, completed, upload, saver,
      last>>

----------------------------------------------------------------------------
(* Bounds of the model *)

\* the largest number of .txt files of a data directory
MaxDocs == 1

\* the largest top_k a caller passes and the configuration sets
MaxTopK == 3

----------------------------------------------------------------------------
(* Values *)

NONE == "None"

\* the characters of the model: "a" and "b" are printable, then white space and
\* one control character (\x01)
WhiteSpace == {" ", "\t"}
Control == {"^A"}

IsSpace(c) == c \in WhiteSpace

IsControl(c) == c \in Control

RECURSIVE SumSeq(_)
SumSeq(s) == IF s = <<>> THEN 0 ELSE Head(s) + SumSeq(Tail(s))

Min(a, b) == IF a <= b THEN a ELSE b

\* text[lo:hi] of Python, 0-based, hi exclusive, for 0 <= lo
Slice(t, lo, hi) ==
    LET h == Min(hi, Len(t))
    IN  IF lo >= h THEN <<>> ELSE SubSeq(t, lo + 1, h)

----------------------------------------------------------------------------
(* DataProcessor *)

\* re.sub(r'\s+', ' ', text): every run of white space becomes one space
\* (inRun: the text follows white space of the same run); a character stays
\* unless it is white space after white space, and white space becomes " "
CollapseSpaces(t, inRun) ==
    LET Stays(i) == \/ ~IsSpace(t[i])
                    \/ IF i = 1 THEN ~inRun ELSE ~IsSpace(t[i - 1])
        kept == SelectSeq([i \in 1..Len(t) |-> i], Stays)
    IN  SubSeq([j \in 1..Len(kept) |->
                   IF IsSpace(t[kept[j]]) THEN " " ELSE t[kept[j]]],
               1, Len(kept))

\* re.sub(r'[\x00-\x08\x0B\x0C\x0E-\x1F\x7F]', '', text)
RemoveControl(t) == SelectSeq(t, LAMBDA c : ~IsControl(c))

RECURSIVE LStrip(_)
LStrip(t) == IF t # <<>> /\ IsSpace(Head(t)) THEN LStrip(Tail(t)) ELSE t

RECURSIVE RStrip(_)
RStrip(t) ==
    IF t # <<>> /\ IsSpace(t[Len(t)]) THEN RStrip(SubSeq(t, 1, Len(t) - 1)) ELSE t

\* str.strip()
Strip(t) == RStrip(LStrip(t))

clean_text(t) == Strip(RemoveControl(CollapseSpaces(t, FALSE)))

\* a plausible slip: a chunk is numbered by its window in the document
RECURSIVE ChunkWindowsByWindow(_, _, _, _, _, _)
ChunkWindowsByWindow(content, filename, start, size, step, chunks) ==
    IF start >= Len(content) THEN chunks
    ELSE LET end_idx == Min(start + size, Len(content))
             chunk_text == Strip(Slice(content, start, end_idx))
             added == IF chunk_text # <<>>
                      THEN Append(chunks, [text |-> chunk_text,
                                           source |-> filename,
                                           chunk_id |-> start \div step])
                      ELSE chunks
         IN  ChunkWindowsByWindow(content, filename, start + step, size, step, added)

\* a plausible slip: the next window starts after the end of this one
RECURSIVE ChunkWindowsGapped(_, _, _, _, _, _)
ChunkWindowsGapped(content, filename, start, size, step, chunks) ==
    IF start >= Len(content) THEN chunks
    ELSE LET end_idx == Min(start + size, Len(content))
             chunk_text == Strip(Slice(content, start, end_idx))
             added == IF chunk_text # <<>>
                      THEN Append(chunks, [text |-> chunk_text,
                                           source |-> filename,
                                           chunk_id |-> Len(chunks)])
                      ELSE chunks
         IN  ChunkWindowsGapped(content, filename, start + size + 1, size, step, added)

\* a plausible slip: the window is not trimmed
RECURSIVE ChunkWindowsUntrimmed(_, _, _, _, _, _)
ChunkWindowsUntrimmed(content, filename, start, size, step, chunks) ==
    IF start >= Len(content) THEN chunks
    ELSE LET end_idx == Min(start + size, Len(content))
             chunk_text == Slice(content, start, end_idx)
             added == IF chunk_text # <<>>
                      THEN Append(chunks, [text |-> chunk_text,
                                           source |-> filename,
                                           chunk_id |-> Len(chunks)])
                      ELSE chunks
         IN  ChunkWindowsUntrimmed(content, filename, start + step, size, step, added)

\* the chunks the windows of one document add to the list `chunks`;
\* range(0, len(content), step) is walked from `start`
RECURSIVE ChunkWindows(_, _, _, _, _, _)
ChunkWindows(content, filename, start, size, step, chunks) ==
    IF start >= Len(content) THEN chunks
    ELSE LET end_idx == Min(start + size, Len(content))
             chunk_text == Strip(Slice(content, start, end_idx))
             added == IF chunk_text # <<>>
                      THEN Append(chunks, [text |-> chunk_text,
                                           source |-> filename,
                                           chunk_id |-> Len(chunks)])
                      ELSE chunks
         IN  ChunkWindows(content, filename, start + step, size, step, added)

RECURSIVE ChunkDocs(_, _, _, _)
ChunkDocs(documents, size, overlap, chunks) ==
    IF documents = <<>> THEN chunks
    ELSE LET doc == Head(documents)
             content == clean_text(doc.content)
         IN  ChunkDocs(Tail(documents), size, overlap,
                       ChunkWindows(content, doc.filename, 0, size,
                                    size - overlap, chunks))

\* chunk_documents for chunk_overlap < chunk_size (a positive step)
chunk_documents(documents, size, overlap) == ChunkDocs(documents, size, overlap, <<>>)


\* what a call gives back: a value, or the exception it raised and where
Return(v) == [err |-> NONE, at |-> NONE, val |-> v]

Raise(e, where) == [err |-> e, at |-> where, val |-> <<>>]

\* the .txt files a data directory can hold
FileA == [filename |-> "a.txt", readable |-> TRUE,
          content |-> <<"a", "b", " ", "\t", "b">>]

FileB == [filename |-> "b.txt", readable |-> TRUE,
          content |-> <<"b", "a", "a">>]

FileC == [filename |-> "c.txt", readable |-> FALSE, content |-> <<>>]

TxtFiles == {FileA, FileB, FileC}

Injective(s) == \A i, j \in 1..Len(s) : s[i] = s[j] => i = j

\* the listings data_dir.glob("*.txt") can give: up to MaxDocs distinct files
Listings ==
    UNION {{s \in [1..n -> TxtFiles] : Injective(s)} : n \in 0..MaxDocs}

\* a data_path: a directory that exists or not, with its .txt files
NoDir == [exists |-> FALSE, txt_files |-> <<>>]

DataDirs == {NoDir} \cup {[exists |-> TRUE, txt_files |-> s] : s \in Listings}

\* what a data_path holds: whether it exists, has a .txt file, has a readable one
DirKind(dir) ==
    [exists |-> dir.exists,
     txt |-> dir.txt_files # <<>>,
     readable |-> \E i \in 1..Len(dir.txt_files) : dir.txt_files[i].readable]

\* the loop of load_documents: a file that cannot be read is reported and skipped
RECURSIVE ReadFiles(_)
ReadFiles(files) ==
    IF files = <<>> THEN <<>>
    ELSE (IF Head(files).readable
          THEN <<[filename |-> Head(files).filename,
                  content |-> Head(files).content]>>
          ELSE <<>>) \o ReadFiles(Tail(files))

\* a plausible slip: the empty listing is not refused
load_documents_unchecked(dir) ==
    IF ~dir.exists THEN Raise("FileNotFoundError", "load_documents")
    ELSE Return(ReadFiles(dir.txt_files))

load_documents(dir) ==
    IF ~dir.exists THEN Raise("FileNotFoundError", "load_documents")
    ELSE IF dir.txt_files = <<>> THEN Raise("FileNotFoundError", "load_documents")
    ELSE Return(ReadFiles(dir.txt_files))

process_pipeline(dir, size, overlap) ==
    LET documents == load_documents(dir)
    IN  IF documents.err # NONE THEN documents
        ELSE Return(chunk_documents(documents.val, size, overlap))

----------------------------------------------------------------------------
(* The embedding model and the vector index library *)

\* model.get_sentence_embedding_dimension()
embedding_dim == 2

Count(t, c) == Len(SelectSeq(t, LAMBDA x : x = c))

\* model.encode of one text: a deterministic vector of embedding_dim numbers
Encode(t) == <<Len(t), Count(t, "a")>>

\* model.encode(texts, convert_to_numpy=True): a 2-d array with one row per text;
\* of an empty list, an empty array of one dimension
EncodeAll(texts) ==
    [ndim |-> IF texts = <<>> THEN 1 ELSE 2,
     rows |-> [i \in 1..Len(texts) |-> Encode(texts[i])]]

\* self.index = None
NoIndex == [set |-> FALSE, d |-> 0, xb |-> <<>>]

\* faiss.IndexFlatL2(d)
IndexFlatL2(d) == [set |-> TRUE, d |-> d, xb |-> <<>>]

\* index.add(x): n, d = x.shape; assert d == self.d; the rows are appended
IndexAdd(ix, x) ==
    IF x.ndim # 2 THEN Raise("ValueError", "index.add")
    ELSE IF \E i \in 1..Len(x.rows) : Len(x.rows[i]) # ix.d
         THEN Raise("AssertionError", "index.add")
         ELSE Return([ix EXCEPT !.xb = ix.xb \o x.rows])

ntotal(ix) == Len(ix.xb)

\* squared Euclidean distance
L2Sqr(u, v) == SumSeq([i \in 1..Len(u) |-> (u[i] - v[i]) * (u[i] - v[i])])

\* the distance the library reports for a missing neighbour (the largest float32)
FltMax == 1000000

\* the nearest of the positions `left`: smallest distance, then smallest position
Nearest(ix, q, left) ==
    CHOOSE i \in left :
        \A j \in left :
            \/ L2Sqr(ix.xb[i], q) < L2Sqr(ix.xb[j], q)
            \/ L2Sqr(ix.xb[i], q) = L2Sqr(ix.xb[j], q) /\ i <= j

RECURSIVE KNearest(_, _, _, _)
KNearest(ix, q, k, left) ==
    IF k = 0 THEN <<>>
    ELSE IF left = {}
         THEN <<[distance |-> FltMax, idx |-> -1]>> \o KNearest(ix, q, k - 1, left)
         ELSE LET i == Nearest(ix, q, left)
              IN  <<[distance |-> L2Sqr(ix.xb[i], q), idx |-> i - 1]>>
                      \o KNearest(ix, q, k - 1, left \ {i})

\* index.search(query_embedding, k) for one query: k (distance, position) pairs,
\* nearest first, positions 0-based, padded with position -1 at distance FltMax
IndexSearch(ix, q, k) == KNearest(ix, q, k, 1..ntotal(ix))


----------------------------------------------------------------------------
(* The two persisted files *)

AbsentFile == [state |-> "absent", d |-> 0, ntotal |-> 0, data |-> <<>>]

\* a file cut short by a write that failed part-way
CorruptFile == [state |-> "corrupt", d |-> 0, ntotal |-> 0, data |-> <<>>]

RECURSIVE Flatten(_)
Flatten(rows) == IF rows = <<>> THEN <<>> ELSE Head(rows) \o Flatten(Tail(rows))

\* a plausible slip: the last vector is not written
WriteIndexShort(ix) ==
    [state |-> "ok", d |-> ix.d,
     ntotal |-> IF ntotal(ix) = 0 THEN 0 ELSE ntotal(ix) - 1,
     data |-> Flatten(SubSeq(ix.xb, 1, ntotal(ix) - 1))]

\* faiss.write_index: the header (d, ntotal) and the vectors as one flat array
WriteIndex(ix) ==
    [state |-> "ok", d |-> ix.d, ntotal |-> ntotal(ix), data |-> Flatten(ix.xb)]

\* faiss.read_index: ntotal vectors of d numbers each, cut from the flat array
ReadIndex(f) ==
    [set |-> TRUE, d |-> f.d,
     xb |-> [i \in 1..f.ntotal |-> SubSeq(f.data, (i - 1) * f.d + 1, i * f.d)]]

\* pickle.dump(self.metadata, f): the list, each dict as its three values
Pickle(meta) ==
    [state |-> "ok", d |-> 0, ntotal |-> 0,
     data |-> [i \in 1..Len(meta) |->
                  <<meta[i].text, meta[i].source, meta[i].chunk_id>>]]

\* pickle.load(f)
Unpickle(f) ==
    [i \in 1..Len(f.data) |->
        [text |-> f.data[i][1], source |-> f.data[i][2], chunk_id |-> f.data[i][3]]]

----------------------------------------------------------------------------
(* EmbeddingManager.  A method maps the world before the call (the manager's   *)
(* index and metadata, the directories and the two files) to the world after   *)
(* it, with the exception it raised if it raised one.                          *)

World(ix, meta, ds, ifile, mfile) ==
    [index |-> ix, metadata |-> meta, dirs |-> ds,
     indexFile |-> ifile, metaFile |-> mfile]

Done(w) == [w |-> w, err |-> NONE, at |-> NONE]

Failed(w, e, where) == [w |-> w, err |-> e, at |-> where]

\* the faults a build can meet in the libraries and the file system
BuildFaults == {"none", "encode", "write_index", "open_meta", "dump_meta"}

encode_documents(chunks, fault) ==
    IF fault = "encode" THEN Raise("RuntimeError", "encode_documents")
    ELSE Return(EncodeAll([i \in 1..Len(chunks) |-> chunks[i].text]))

\* a plausible slip: the vectors are added to the index already held
build_index_incremental(w, embeddings, meta) ==
    LET w1 == IF w.index.set THEN w
              ELSE [w EXCEPT !.index = IndexFlatL2(embedding_dim)]
        added == IndexAdd(w1.index, embeddings)
    IN  IF added.err # NONE THEN Failed(w1, added.err, added.at)
        ELSE Done([w1 EXCEPT !.index = added.val, !.metadata = meta])

build_index(w, embeddings, meta) ==
    LET w1 == [w EXCEPT !.index = IndexFlatL2(embedding_dim)]
        added == IndexAdd(w1.index, embeddings)
    IN  IF added.err # NONE THEN Failed(w1, added.err, added.at)
        ELSE Done([w1 EXCEPT !.index = added.val, !.metadata = meta])

\* save_index, called with an index that is set (build_knowledge_base calls it
\* after build_index): the directory of the index file is made, then the index
\* file and the metadata file are written, in this order
save_index(w, cfg, fault) ==
    LET w1 == [w EXCEPT !.dirs = w.dirs \cup {cfg.index_dir}]
        w2 == [w1 EXCEPT !.indexFile = WriteIndex(w1.index)]
    IN  IF fault = "write_index"
        THEN Failed([w1 EXCEPT !.indexFile = CorruptFile], "OSError", "write_index")
        ELSE IF cfg.meta_dir \notin w2.dirs
        THEN Failed(w2, "FileNotFoundError", "open")
        ELSE IF fault = "open_meta" THEN Failed(w2, "OSError", "open")
        ELSE IF fault = "dump_meta"
        THEN Failed([w2 EXCEPT !.metaFile = CorruptFile], "OSError", "pickle.dump")
        ELSE Done([w2 EXCEPT !.metaFile = Pickle(w2.metadata)])

\* a plausible variant: a pair of files of different lengths is refused
load_index_checked(w) ==
    IF w.indexFile.state = "absent" \/ w.metaFile.state = "absent"
    THEN Failed(w, "FileNotFoundError", "load_index")
    ELSE IF w.indexFile.state = "corrupt"
    THEN Failed(w, "RuntimeError", "read_index")
    ELSE IF w.metaFile.state = "corrupt"
    THEN Failed(w, "UnpicklingError", "pickle.load")
    ELSE IF ntotal(ReadIndex(w.indexFile)) # Len(Unpickle(w.metaFile))
    THEN Failed(w, "ValueError", "load_index")
    ELSE Done([w EXCEPT !.index = ReadIndex(w.indexFile),
                        !.metadata = Unpickle(w.metaFile)])

\* a plausible slip: only the index file is looked for
load_index_unchecked_metadata(w) ==
    IF w.indexFile.state = "absent"
    THEN Failed(w, "FileNotFoundError", "load_index")
    ELSE IF w.indexFile.state = "corrupt"
    THEN Failed(w, "RuntimeError", "read_index")
    ELSE LET w1 == [w EXCEPT !.index = ReadIndex(w.indexFile)]
         IN  IF w.metaFile.state = "absent"
             THEN Failed(w1, "FileNotFoundError", "open")
             ELSE IF w.metaFile.state = "corrupt"
             THEN Failed(w1, "UnpicklingError", "pickle.load")
             ELSE Done([w1 EXCEPT !.metadata = Unpickle(w.metaFile)])

load_index(w) ==
    IF w.indexFile.state = "absent" \/ w.metaFile.state = "absent"
    THEN Failed(w, "FileNotFoundError", "load_index")
    ELSE IF w.indexFile.state = "corrupt"
    THEN Failed(w, "RuntimeError", "read_index")
    ELSE LET w1 == [w EXCEPT !.index = ReadIndex(w.indexFile)]
         IN  IF w.metaFile.state = "corrupt"
             THEN Failed(w1, "UnpicklingError", "pickle.load")
             ELSE Done([w1 EXCEPT !.metadata = Unpickle(w.metaFile)])


\* a plausible slip: a similarity that falls linearly with the distance
SimilarityLinear(distance) == [num |-> 1 - distance, den |-> 1]

\* similarity = 1 / (1 + distance) in float32, where 1 + FltMax is FltMax
Similarity(distance) ==
    [num |-> 1, den |-> IF distance >= FltMax THEN FltMax ELSE 1 + distance]

\* a >= b for two fractions of positive denominator
GEq(a, b) == a.num * b.den >= b.num * a.den

\* a plausible variant: a list of which a negative idx is out of range
InRangeFromZero(list, idx) == 0 <= idx /\ idx < Len(list)

\* whether list[idx] of Python is in range: a negative idx counts from the end
InRange(list, idx) == -Len(list) <= idx /\ idx < Len(list)

\* list[idx] of Python
At(list, idx) == IF idx >= 0 THEN list[idx + 1] ELSE list[Len(list) + idx + 1]

\* the ValueError of search on an instance without index
NotBuilt == Raise("ValueError", "search")

search(w, query, top_k) ==
    IF ~w.index.set THEN NotBuilt
    ELSE LET found == IndexSearch(w.index, Encode(query), top_k)
         IN  IF \E i \in 1..Len(found) : ~InRange(w.metadata, found[i].idx)
             THEN Raise("IndexError", "search")
             ELSE Return([i \in 1..Len(found) |->
                     [text |-> At(w.metadata, found[i].idx).text,
                      source |-> At(w.metadata, found[i].idx).source,
                      chunk_id |-> At(w.metadata, found[i].idx).chunk_id,
                      similarity |-> Similarity(found[i].distance)]])

----------------------------------------------------------------------------
(* ContractRAG *)

\* top_k of answer_question when the caller passes none
DefaultTopK == 3

\* an optional argument: <<>> is None (or not passed), <<k>> is k
Omitted == <<>>

\* the top_k retrieve_context asks search for
RetrieveTopK(cfg, top_k) == IF top_k = Omitted THEN cfg.top_k ELSE top_k[1]

\* a plausible slip: the filter keeps only what is strictly above the threshold
KeepAbove(results, threshold) ==
    SelectSeq(results, LAMBDA r : ~GEq(threshold, r.similarity))

\* [r for r in results if r['similarity'] >= threshold]
Keep(results, threshold) ==
    SelectSeq(results, LAMBDA r : GEq(r.similarity, threshold))

retrieve_context(w, cfg, query, top_k) ==
    LET results == search(w, query, RetrieveTopK(cfg, top_k))
    IN  IF results.err # NONE THEN results
        ELSE Return(Keep(results.val, cfg.similarity_threshold))

\* the top_k answer_question passes to retrieve_context
AnswerTopK(top_k) == IF top_k = Omitted THEN <<DefaultTopK>> ELSE top_k

\* the number of characters of a chunk shown in an answer's context
ContextChars == 200

Ellipsis == <<".", ".", ".">>

Sources(chunks) == {chunks[i].source : i \in 1..Len(chunks)}

\* the three results of answer_question; an answer is the sequence of the
\* pieces its string is made of
NoContextAnswer ==
    [answer |-> <<"No relevant information found in the contract documents.">>,
     confidence |-> 0, context |-> <<>>, sources |-> {}]

QAErrorAnswer(qa) ==
    [answer |-> <<"Error generating answer: ", qa.message>>, confidence |-> 0,
     context |-> <<>>, sources |-> {}]

\* a plausible slip: the chunk text is not cut
QAAnswerWhole(qa, chunks) ==
    [answer |-> <<qa.answer>>, confidence |-> qa.score,
     context |-> [i \in 1..Len(chunks) |->
                    [text |-> chunks[i].text \o Ellipsis,
                     source |-> chunks[i].source,
                     similarity |-> chunks[i].similarity]],
     sources |-> Sources(chunks)]

QAAnswer(qa, chunks) ==
    [answer |-> <<qa.answer>>, confidence |-> qa.score,
     context |-> [i \in 1..Len(chunks) |->
                    [text |-> Slice(chunks[i].text, 0, ContextChars) \o Ellipsis,
                     source |-> chunks[i].source,
                     similarity |-> chunks[i].similarity]],
     sources |-> Sources(chunks)]

\* what the extractive QA pipeline can do with a question and a context:
\* give an answer span with a score (in percent), or raise
QAOutcomes ==
    {[raised |-> FALSE, answer |-> "span", score |-> 87, message |-> ""],
     [raised |-> TRUE, answer |-> "", score |-> 0, message |-> "qa failed"]}

\* a result with the steps of the call that ran
Stepped(r, steps) == [err |-> r.err, at |-> r.at, val |-> r.val, steps |-> steps]

\* a plausible slip: the call of the QA pipeline stands outside the try
answer_question_uncaught(w, cfg, question, top_k, qa) ==
    LET context_chunks == retrieve_context(w, cfg, question, AnswerTopK(top_k))
    IN  IF context_chunks.err # NONE
        THEN Stepped(context_chunks, <<"retrieve_context">>)
        ELSE IF context_chunks.val = <<>>
        THEN Stepped(Return(NoContextAnswer), <<"retrieve_context">>)
        ELSE IF qa.raised
        THEN Stepped(Raise("Exception", "qa_pipeline"),
                     <<"retrieve_context", "qa_pipeline">>)
        ELSE Stepped(Return(QAAnswer(qa, context_chunks.val)),
                     <<"retrieve_context", "qa_pipeline">>)

\* a plausible slip: the empty context is not answered apart
answer_question_no_fallback(w, cfg, question, top_k, qa) ==
    LET context_chunks == retrieve_context(w, cfg, question, AnswerTopK(top_k))
    IN  IF context_chunks.err # NONE
        THEN Stepped(context_chunks, <<"retrieve_context">>)
        ELSE IF qa.raised
        THEN Stepped(Return(QAErrorAnswer(qa)), <<"retrieve_context", "qa_pipeline">>)
        ELSE Stepped(Return(QAAnswer(qa, context_chunks.val)),
                     <<"retrieve_context", "qa_pipeline">>)

\* answer_question: what it gives back, and whether the QA pipeline was called
answer_question(w, cfg, question, top_k, qa) ==
    LET context_chunks == retrieve_context(w, cfg, question, AnswerTopK(top_k))
    IN  IF context_chunks.err # NONE
        THEN Stepped(context_chunks, <<"retrieve_context">>)
        ELSE IF context_chunks.val = <<>>
        THEN Stepped(Return(NoContextAnswer), <<"retrieve_context">>)
        ELSE IF qa.raised
        THEN Stepped(Return(QAErrorAnswer(qa)), <<"retrieve_context", "qa_pipeline">>)
        ELSE Stepped(Return(QAAnswer(qa, context_chunks.val)),
                     <<"retrieve_context", "qa_pipeline">>)

\* build_knowledge_base: the world after it, the exception if any, the steps
\* run, and the chunks it made of the documents
build_knowledge_base(w, cfg, dir, fault) ==
    LET chunks == process_pipeline(dir, cfg.chunk_size, cfg.chunk_overlap)
        embeddings == encode_documents(chunks.val, fault)
        built == build_index(w, embeddings.val, chunks.val)
        saved == save_index(built.w, cfg, fault)
    IN  IF chunks.err # NONE
        THEN [w |-> w, err |-> chunks.err, at |-> chunks.at, chunks |-> <<>>,
              steps |-> <<"process_pipeline">>]
        ELSE IF embeddings.err # NONE
        THEN [w |-> w, err |-> embeddings.err, at |-> embeddings.at,
              chunks |-> chunks.val,
              steps |-> <<"process_pipeline", "encode_documents">>]
        ELSE IF built.err # NONE
        THEN [w |-> built.w, err |-> built.err, at |-> built.at,
              chunks |-> chunks.val,
              steps |-> <<"process_pipeline", "encode_documents", "build_index">>]
        ELSE [w |-> saved.w, err |-> saved.err, at |-> saved.at,
              chunks |-> chunks.val,
              steps |-> <<"process_pipeline", "encode_documents", "build_index",
                          "save_index">>]

load_knowledge_base(w) == load_index(w)


----------------------------------------------------------------------------
(* The state machine: one ContractRAG instance at a time over one pair of     *)
(* persisted files                                                             *)

\* the questions asked
Queries == {<<"a">>, <<"b", "b">>}

\* config['rag']['similarity_threshold'], as a fraction
Thresholds == {[num |-> 0, den |-> 1], [num |-> 1, den |-> 2], [num |-> 11, den |-> 10]}

\* the configurations, the two files side by side in models/
Configs ==
    [chunk_size : {3}, chunk_overlap : {1},
     top_k : 1..MaxTopK, similarity_threshold : Thresholds,
     index_dir : {"models"}, meta_dir : {"models"}]

\* the configuration of the Django front-end and of the integration test
\* (top_k 3, threshold 0.0), with a chunk size and overlap of the model's scale
DefaultConfig ==
    [chunk_size |-> 3, chunk_overlap |-> 1,
     top_k |-> DefaultTopK, similarity_threshold |-> [num |-> 0, den |-> 1],
     index_dir |-> "models", meta_dir |-> "models"]

NoSaver == [valid |-> FALSE, index |-> NoIndex, metadata |-> <<>>]

NoQA == [raised |-> FALSE, answer |-> "", score |-> 0, message |-> ""]

\* a call: its arguments (for a build, what its data_path holds), whether the
\* instance had no index when it was made, the exception it raised or the value
\* it returned, and the steps of it that ran; then the documents given to
\* chunk_documents, the chunks a build made, the question as a web request sent it
Call(op, kind, query, top_k, search_k, qa, fresh, r, steps) ==
    [op |-> op, dir |-> kind, query |-> query, top_k |-> top_k,
     search_k |-> search_k, qa |-> qa, fresh |-> fresh,
     err |-> r.err, at |-> r.at, val |-> r.val, steps |-> steps,
     docs |-> <<>>, chunks |-> <<>>, raw |-> <<>>]

NoCall ==
    Call("__init__", DirKind(NoDir), <<>>, Omitted, 0, NoQA, TRUE, Return(<<>>), <<>>)

Now == World(index, metadata, dirs, indexFile, metaFile)

Install(w) ==
    /\ index' = w.index
    /\ metadata' = w.metadata
    /\ dirs' = w.dirs
    /\ indexFile' = w.indexFile
    /\ metaFile' = w.metaFile

\* no upload request is building
Idle == [pc |-> "idle", chunks |-> <<>>, before |-> <<>>]

Fresh ==
    /\ upload = Idle
    /\ index = NoIndex
    /\ metadata = <<>>
    /\ dirs = {}
    /\ indexFile = AbsentFile
    /\ metaFile = AbsentFile
    /\ completed = FALSE
    /\ saver = NoSaver
    /\ last = NoCall

Init == config = DefaultConfig /\ Fresh

\* ContractRAG(config) in a new process: a new EmbeddingManager, the files stay
New ==
    /\ last.op # "__init__"
    /\ index' = NoIndex
    /\ metadata' = <<>>
    /\ completed' = FALSE
    /\ last' = NoCall
    /\ UNCHANGED <<config, dirs, indexFile, metaFile, upload, saver>>

Build(dir, fault) ==
    LET r == build_knowledge_base(Now, config, dir, fault)
        ranSave == Len(r.steps) = 4
    IN  /\ Install(r.w)
        /\ completed' = (completed \/ ranSave)
        /\ saver' = IF ~ranSave THEN saver
                    ELSE IF r.err = NONE
                    THEN [valid |-> TRUE, index |-> r.w.index,
                          metadata |-> r.w.metadata]
                    ELSE NoSaver
        /\ last' = [Call("build_knowledge_base", DirKind(dir), <<>>, Omitted, 0,
                         NoQA, ~index.set,
                         [err |-> r.err, at |-> r.at, val |-> <<>>], r.steps)
                        EXCEPT !.chunks = r.chunks]
        /\ UNCHANGED <<config, upload>>

BuildKnowledgeBase == \E dir \in DataDirs, fault \in BuildFaults : Build(dir, fault)

\* a build that meets no fault in the libraries or the file system
BuildNoFault == \E dir \in DataDirs : Build(dir, "none")

LoadKnowledgeBase ==
    LET r == load_knowledge_base(Now)
    IN  /\ Install(r.w)
        /\ completed' = (completed \/ r.err = NONE)
        /\ last' = Call("load_knowledge_base", DirKind(NoDir), <<>>, Omitted, 0,
                        NoQA, ~index.set /\ metadata = <<>>,
                        [err |-> r.err, at |-> r.at, val |-> <<>>], <<>>)
        /\ UNCHANGED <<config, upload, saver>>

Search ==
    \E query \in Queries, top_k \in 1..MaxTopK :
        /\ last' = Call("search", DirKind(NoDir), query, <<top_k>>, top_k, NoQA,
                        ~index.set, search(Now, query, top_k), <<>>)
        /\ UNCHANGED <<config, index, metadata, dirs, indexFile, metaFile,
                       completed, upload, saver>>

TopKArgs == {Omitted} \cup {<<k>> : k \in 1..MaxTopK}

RetrieveContext ==
    \E query \in Queries, top_k \in TopKArgs :
        /\ last' = Call("retrieve_context", DirKind(NoDir), query, top_k,
                        RetrieveTopK(config, top_k), NoQA, ~index.set,
                        retrieve_context(Now, config, query, top_k), <<>>)
        /\ UNCHANGED <<config, index, metadata, dirs, indexFile, metaFile,
                       completed, upload, saver>>

Ask(question, top_k, qa) ==
    /\ LET r == answer_question(Now, config, question, top_k, qa)
       IN  last' = Call("answer_question", DirKind(NoDir), question, top_k,
                        RetrieveTopK(config, AnswerTopK(top_k)), qa, ~index.set,
                        r, r.steps)
    /\ UNCHANGED <<config, index, metadata, dirs, indexFile, metaFile,
                   completed, upload, saver>>

AnswerQuestion ==
    \E question \in Queries, top_k \in TopKArgs, qa \in QAOutcomes :
        Ask(question, top_k, qa)

\* the life of the knowledge base: builds with their faults, loads, new
\* processes, questions; under the default configuration
Next ==
    \/ New
    \/ BuildKnowledgeBase
    \/ LoadKnowledgeBase
    \/ AnswerQuestion

Spec == Init /\ [][Next]_vars

\* the queries: every configuration, builds without faults
InitQuery == config \in Configs /\ Fresh

NextQuery ==
    \/ BuildNoFault
    \/ Search
    \/ RetrieveContext
    \/ AnswerQuestion

SpecQuery == InitQuery /\ [][NextQuery]_vars

\* the context of an answer: chunks longer than the part of them an answer
\* shows.  A file of ContextChars + MaxOver characters is chunked with the
\* chunk size and overlap of the integration test, so that it makes one chunk
MaxOver == 5

FileL == [filename |-> "l.txt", readable |-> TRUE,
          content |-> [i \in 1..(ContextChars + MaxOver) |->
                          IF i % 7 = 0 THEN "b" ELSE "a"]]

LongDirs ==
    {[exists |-> TRUE, txt_files |-> s] :
        s \in {<<FileL>>, <<FileA>>, <<FileL, FileA>>}}

LongConfigs ==
    [chunk_size : {400}, chunk_overlap : {50},
     top_k : {DefaultTopK}, similarity_threshold : Thresholds,
     index_dir : {"models"}, meta_dir : {"models"}]

InitContext == config \in LongConfigs /\ Fresh

BuildLong == \E dir \in LongDirs : Build(dir, "none")

NextContext ==
    \/ BuildLong
    \/ AnswerQuestion

SpecContext == InitContext /\ [][NextContext]_vars

\* the chunker by itself: chunk_documents of the instance's DataProcessor on a
\* list of documents, under every chunk size and every overlap below it
MaxLen == 3

MaxChunkSize == 3

Alphabet == {"a", " ", "^A"}

Texts(n) == UNION {[1..k -> Alphabet] : k \in 0..n}

\* no document, one document, or two of which the second is shorter
DocLists ==
    {<<>>}
    \cup {<<[filename |-> "d1.txt", content |-> t]>> : t \in Texts(MaxLen)}
    \cup {<<[filename |-> "d1.txt", content |-> t],
            [filename |-> "d2.txt", content |-> u]>> :
              t \in Texts(MaxLen), u \in Texts(MaxLen - 1)}

ChunkConfigs ==
    {[DefaultConfig EXCEPT !.chunk_size = p[1], !.chunk_overlap = p[2]] :
        p \in {q \in (1..MaxChunkSize) \X (0..(MaxChunkSize - 1)) : q[2] < q[1]}}

InitChunk == config \in ChunkConfigs /\ Fresh

\* one call in a behaviour: the function keeps no state between calls
ChunkDocuments ==
    \E documents \in DocLists :
        /\ last = NoCall
        /\ last' = [Call("chunk_documents", DirKind(NoDir), <<>>, Omitted, 0,
                         NoQA, ~index.set,
                         Return(chunk_documents(documents, config.chunk_size,
                                                config.chunk_overlap)), <<>>)
                        EXCEPT !.docs = documents]
        /\ UNCHANGED <<config, index, metadata, dirs, indexFile, metaFile,
                       completed, upload, saver>>

NextChunk == ChunkDocuments

SpecChunk == InitChunk /\ [][NextChunk]_vars

\* the two persisted locations: metadata_path beside faiss_index_path in
\* models/, or in a directory meta/ of its own.  When the process starts either
\* directory is there or not, and so is either file of an earlier build of b.txt
PathConfigs ==
    {[DefaultConfig EXCEPT !.meta_dir = m] : m \in {"models", "meta"}}

Stored ==
    build_knowledge_base(World(NoIndex, <<>>, {}, AbsentFile, AbsentFile),
                         DefaultConfig, [exists |-> TRUE, txt_files |-> <<FileB>>],
                         "none").w

InitPaths ==
    /\ config \in PathConfigs
    /\ index = NoIndex
    /\ metadata = <<>>
    /\ dirs \in SUBSET {"models", "meta"}
    /\ indexFile \in {AbsentFile, Stored.indexFile}
    /\ metaFile \in {AbsentFile, Stored.metaFile}
    /\ upload = Idle
    /\ indexFile # AbsentFile => config.index_dir \in dirs
    /\ metaFile # AbsentFile => config.meta_dir \in dirs
    /\ completed = FALSE
    /\ saver = NoSaver
    /\ last = NoCall

NextPaths ==
    \/ New
    \/ BuildNoFault
    \/ LoadKnowledgeBase

SpecPaths == InitPaths /\ [][NextPaths]_vars

\* the web front-ends: the ask-question handler of the Flask application, on the
\* application's instance, and the ask view of the Django application, which
\* makes an instance and loads the knowledge base on each request
MaxQuestionChars == 500

MaxPad == 1

MaxBeyond == 2

\* k characters of white space
Pad(k) == [i \in 1..k |-> IF i % 2 = 1 THEN " " ELSE "\t"]

\* a question of n characters, with white space inside if it has three or more
Body(n) == [i \in 1..n |-> IF i = 2 /\ n >= 3 THEN " " ELSE "a"]

\* the questions a request can carry: none or short, or about as long as the
\* cap, with white space around
RawQuestions ==
    {Pad(l) \o Body(n) \o Pad(t) :
        l \in 0..MaxPad, t \in 0..MaxPad,
        n \in {0, 1, 3} \cup ((MaxQuestionChars - 1)..(MaxQuestionChars + MaxBeyond))}

\* a response: its status, what it renders, whether answer_question was
\* called and with which question
Response(status, page, called, question) ==
    [status |-> status, page |-> page, called |-> called, question |-> question]

\* a plausible slip: the question is not trimmed
flask_ask_question_untrimmed(w, cfg, raw, qa) ==
    LET question == raw
    IN  IF question = <<>> THEN Response(400, "error", FALSE, <<>>)
        ELSE IF Len(question) > MaxQuestionChars
        THEN Response(400, "error", FALSE, <<>>)
        ELSE IF answer_question(w, cfg, question, Omitted, qa).err # NONE
        THEN Response(500, "error", TRUE, question)
        ELSE Response(200, "answer", TRUE, question)

\* ask_question of app.py, for a JSON body with this question
flask_ask_question(w, cfg, raw, qa) ==
    LET question == Strip(raw)
    IN  IF question = <<>> THEN Response(400, "error", FALSE, <<>>)
        ELSE IF Len(question) > MaxQuestionChars
        THEN Response(400, "error", FALSE, <<>>)
        ELSE IF answer_question(w, cfg, question, Omitted, qa).err # NONE
        THEN Response(500, "error", TRUE, question)
        ELSE Response(200, "answer", TRUE, question)

\* AskForm: forms.CharField(max_length=500) strips the value, requires it to be
\* non-empty and validates its length
AskForm(raw) ==
    LET value == Strip(raw)
    IN  IF value = <<>> THEN [valid |-> FALSE, question |-> <<>>]
        ELSE IF Len(value) > MaxQuestionChars THEN [valid |-> FALSE, question |-> <<>>]
        ELSE [valid |-> TRUE, question |-> value]

\* ask of ragapp/views.py
django_ask(w, cfg, method, raw, qa) ==
    LET form == AskForm(raw)
        rag == load_knowledge_base([w EXCEPT !.index = NoIndex, !.metadata = <<>>])
    IN  IF method # "POST" THEN Response(302, "redirect", FALSE, <<>>)
        ELSE IF ~form.valid THEN Response(200, "django_index.html", FALSE, <<>>)
        ELSE IF rag.err # NONE THEN Response(200, "answer.html error", FALSE, <<>>)
        ELSE IF answer_question(rag.w, cfg, form.question, Omitted, qa).err # NONE
        THEN Response(200, "answer.html error", TRUE, form.question)
        ELSE Response(200, "answer.html", TRUE, form.question)

WebCall(op, raw, qa, response) ==
    [Call(op, DirKind(NoDir), response.question, Omitted, 0, qa, ~index.set,
          Return(response), <<>>)
        EXCEPT !.raw = raw]

FlaskAsk ==
    \E raw \in RawQuestions, qa \in QAOutcomes :
        /\ last' = WebCall("flask_ask_question", raw, qa,
                           flask_ask_question(Now, config, raw, qa))
        /\ UNCHANGED <<config, index, metadata, dirs, indexFile, metaFile,
                       completed, upload, saver>>

\* a POST with a question, or a GET, which carries none
DjangoAsk ==
    /\ \/ \E raw \in RawQuestions, qa \in QAOutcomes :
              last' = WebCall("django_ask", raw, qa,
                              django_ask(Now, config, "POST", raw, qa))
       \/ last' = WebCall("django_ask_get", <<>>, NoQA,
                          django_ask(Now, config, "GET", <<>>, NoQA))
    /\ UNCHANGED <<config, index, metadata, dirs, indexFile, metaFile,
                   completed, upload, saver>>

NextWeb ==
    \/ BuildNoFault
    \/ FlaskAsk
    \/ DjangoAsk

SpecWeb == Init /\ [][NextWeb]_vars

\* the Flask application under its threaded server: an upload request runs
\* build_knowledge_base on the application's instance while other requests
\* search it.  build_index is three statements, and a search can run between
\* any two of them.

\* a plausible variant: the metadata is assigned with the fresh index
AssignIndexAndMetadata(w, embeddings, meta) ==
    [w EXCEPT !.index = IndexFlatL2(embedding_dim), !.metadata = meta]

\* self.index = faiss.IndexFlatL2(self.embedding_dim)
AssignIndex(w, embeddings, meta) ==
    [w EXCEPT !.index = IndexFlatL2(embedding_dim)]

\* self.index.add(embeddings.astype(np.float32))
AddEmbeddings(w, embeddings, meta) ==
    LET added == IndexAdd(w.index, embeddings)
    IN  IF added.err # NONE THEN Failed(w, added.err, added.at)
        ELSE Done([w EXCEPT !.index = added.val])

\* self.metadata = metadata
AssignMetadata(w, embeddings, meta) == [w EXCEPT !.metadata = meta]

\* a step of the upload request
UploadCall(r, step) ==
    Call("upload_files", DirKind(NoDir), <<>>, Omitted, 0, NoQA, ~index.set,
         [err |-> r.err, at |-> r.at, val |-> <<>>], <<step>>)

\* the embeddings encode_documents made of the chunks the upload holds
UploadEmbeddings == encode_documents(upload.chunks, "none").val

\* the request starts: process_pipeline and encode_documents, on local values
UploadStart ==
    \E dir \in DataDirs :
        LET chunks == process_pipeline(dir, config.chunk_size, config.chunk_overlap)
        IN  /\ upload.pc = "idle"
            /\ upload' = IF chunks.err # NONE THEN Idle
                         ELSE [pc |-> "assign_index", chunks |-> chunks.val,
                               before |-> metadata]
            /\ last' = UploadCall(chunks, "process_pipeline")
            /\ UNCHANGED <<config, index, metadata, dirs, indexFile, metaFile,
                           completed, saver>>

UploadAssignIndex ==
    /\ upload.pc = "assign_index"
    /\ Install(AssignIndex(Now, UploadEmbeddings, upload.chunks))
    /\ upload' = [upload EXCEPT !.pc = "add"]
    /\ last' = UploadCall(Return(<<>>), "assign_index")
    /\ UNCHANGED <<config, completed, saver>>

UploadAdd ==
    LET r == AddEmbeddings(Now, UploadEmbeddings, upload.chunks)
    IN  /\ upload.pc = "add"
        /\ Install(r.w)
        /\ upload' = IF r.err # NONE THEN Idle
                     ELSE [upload EXCEPT !.pc = "assign_metadata"]
        /\ last' = UploadCall(r, "add")
        /\ UNCHANGED <<config, completed, saver>>

UploadAssignMetadata ==
    /\ upload.pc = "assign_metadata"
    /\ Install(AssignMetadata(Now, UploadEmbeddings, upload.chunks))
    /\ upload' = [upload EXCEPT !.pc = "save"]
    /\ completed' = TRUE
    /\ last' = UploadCall(Return(<<>>), "assign_metadata")
    /\ UNCHANGED <<config, saver>>

UploadSave ==
    LET r == save_index(Now, config, "none")
    IN  /\ upload.pc = "save"
        /\ Install(r.w)
        /\ upload' = Idle
        /\ saver' = IF r.err = NONE
                    THEN [valid |-> TRUE, index |-> r.w.index,
                          metadata |-> r.w.metadata]
                    ELSE NoSaver
        /\ last' = UploadCall(r, "save_index")
        /\ UNCHANGED <<config, completed>>

NextRace ==
    \/ UploadStart
    \/ UploadAssignIndex
    \/ UploadAdd
    \/ UploadAssignMetadata
    \/ UploadSave
    \/ Search
    \/ AnswerQuestion

SpecRace == Init /\ [][NextRace]_vars

\* a save that stops between its two files: builds of a file of two chunks and
\* of a file of one, each of which can fail at the opening of the metadata file
\* (or the process can end there), then a new process that loads
FileD == [filename |-> "d.txt", readable |-> TRUE, content |-> <<"b", "a">>]

CrashDirs == {[exists |-> TRUE, txt_files |-> s] : s \in {<<FileA>>, <<FileD>>}}

BuildInterrupted == \E dir \in CrashDirs, fault \in {"none", "open_meta"} : Build(dir, fault)

NextCrash ==
    \/ New
    \/ BuildInterrupted
    \/ LoadKnowledgeBase
    \/ Search

SpecCrash == Init /\ [][NextCrash]_vars

\* clean_text by itself, on every text of up to MaxCleanLen characters
MaxCleanLen == 5

CleanText ==
    \E t \in Texts(MaxCleanLen) :
        /\ last = NoCall
        /\ last' = [Call("clean_text", DirKind(NoDir), <<>>, Omitted, 0, NoQA,
                         ~index.set, Return(clean_text(t)), <<>>)
                        EXCEPT !.raw = t]
        /\ UNCHANGED <<config, index, metadata, dirs, indexFile, metaFile,
                       completed, upload, saver>>

NextClean == CleanText

SpecClean == Init /\ [][NextClean]_vars

----------------------------------------------------------------------------
(* Claims *)

\* C1: whenever the index is set, it holds as many vectors as metadata has
\* entries, also after a build or a load that raised part-way.
C1_IndexMatchesMetadata == index.set => ntotal(index) = Len(metadata)

\* C2: answer_question fails with the not-built error exactly when no build or
\* load has completed on the instance before it.
C2_NotBuiltExactlyBeforeSuccess ==
    last.op = "answer_question" =>
        ((last.err = NotBuilt.err /\ last.at = NotBuilt.at) <=> ~completed)

\* C3: a build_knowledge_base that raises leaves the in-memory index and
\* metadata as they were before the call.
C3_FailedBuildLeavesMemory ==
    [][(last'.op = "build_knowledge_base" /\ last'.err # NONE)
          => (index' = index /\ metadata' = metadata)]_vars

\* C4: after load_index the in-memory index and metadata are both the values
\* read from the two files or both unchanged.
C4_LoadIsAtomic ==
    [][last'.op = "load_knowledge_base"
          => \/ index' = index /\ metadata' = metadata
             \/ /\ indexFile.state = "ok"
                /\ metaFile.state = "ok"
                /\ index' = ReadIndex(indexFile)
                /\ metadata' = Unpickle(metaFile)]_vars

\* C5: build_knowledge_base on an existing directory without .txt file raises
\* FileNotFoundError and leaves the index, the metadata and the two persisted
\* files untouched.
C5_NoTxtBuildChangesNothing ==
    [][(last'.op = "build_knowledge_base" /\ last'.dir.exists /\ ~last'.dir.txt)
          => /\ last'.err = "FileNotFoundError"
             /\ UNCHANGED <<index, metadata, dirs, indexFile, metaFile>>]_vars

\* a build on an empty directory has raised on an instance that holds a built
\* index beside its persisted files
C5_Witness ==
    /\ last.op = "build_knowledge_base"
    /\ last.dir.exists
    /\ ~last.dir.txt
    /\ last.err = "FileNotFoundError"
    /\ index.set
    /\ ntotal(index) > 0
    /\ metadata # <<>>
    /\ indexFile.state = "ok"
    /\ metaFile.state = "ok"

\* C6: a build on a data path without readable .txt file raises before the
\* encode, build_index and save_index steps run.
C6_FailFastWithoutReadableTxt ==
    (last.op = "build_knowledge_base" /\ ~last.dir.readable) =>
        /\ last.err # NONE
        /\ \A i \in 1..Len(last.steps) :
               last.steps[i] \notin {"encode_documents", "build_index", "save_index"}

\* C7: answer_question called without top_k asks the index for
\* config['rag']['top_k'] neighbours.
C7_DefaultTopKIsConfigured ==
    (last.op = "answer_question" /\ last.top_k = Omitted) =>
        last.search_k = config.top_k

\* the world of the instance whose save_index wrote the two files
SaverWorld == [Now EXCEPT !.index = saver.index, !.metadata = saver.metadata]

\* C8: after save_index, load_index of the two files into a fresh instance
\* gives for every query and k the search result of the instance that saved.
C8_RoundTrip ==
    (last.op = "load_knowledge_base" /\ last.err = NONE /\ last.fresh /\ saver.valid)
        => \A query \in Queries, k \in 1..MaxTopK :
               search(Now, query, k) = search(SaverWorld, query, k)

\* a fresh instance has loaded the files a complete save of two vectors or
\* more wrote, and a search on it returns
C8_Witness ==
    /\ last.op = "load_knowledge_base"
    /\ last.err = NONE
    /\ last.fresh
    /\ saver.valid
    /\ ntotal(saver.index) >= 2
    /\ \E query \in Queries : search(Now, query, 2).err = NONE

\* the positions of a result list whose similarity is at least the threshold
Clearing(results, threshold) ==
    {j \in 1..Len(results) :
         results[j].similarity.num * threshold.den
             >= threshold.num * results[j].similarity.den}

\* C9: when search(query, top_k) returns, retrieve_context returns its
\* subsequence of similarity >= threshold, in the same order and of at most
\* top_k elements; it is empty, and nothing is raised, when no result clears
\* the threshold.
C9_RetrieveIsThresholdFilter ==
    LET found == search(Now, last.query, last.search_k)
        keep == Clearing(found.val, config.similarity_threshold)
    IN  (last.op = "retrieve_context" /\ found.err = NONE) =>
            /\ last.err = NONE
            /\ Len(last.val) = Cardinality(keep)
            /\ Len(last.val) <= last.search_k
            /\ \A i \in 1..Len(last.val) :
                   \E j \in keep :
                       /\ last.val[i] = found.val[j]
                       /\ Cardinality({h \in keep : h < j}) = i - 1
            /\ (keep = {} => last.val = <<>>)

\* retrieve_context has returned some of the results of search and dropped others
C9_Witness ==
    /\ last.op = "retrieve_context"
    /\ last.err = NONE
    /\ Len(last.val) > 0
    /\ Len(last.val) < last.search_k
    /\ search(Now, last.query, last.search_k).err = NONE

\* C10: every similarity search returns is 1/(1+distance) of a distance >= 0,
\* lies in (0, 1], and does not increase with the rank.
C10_SimilarityRange ==
    (last.op = "search" /\ last.err = NONE) =>
        LET found == IndexSearch(index, Encode(last.query), last.search_k)
        IN  /\ Len(last.val) = Len(found)
            /\ \A i \in 1..Len(last.val) :
                   LET sim == last.val[i].similarity
                   IN  /\ found[i].distance >= 0
                       /\ found[i].distance < FltMax
                              => sim.den = sim.num * (1 + found[i].distance)
                       /\ 0 < sim.num
                       /\ sim.num <= sim.den
            /\ \A i, j \in 1..Len(last.val) :
                   i < j => last.val[i].similarity.num * last.val[j].similarity.den
                                >= last.val[j].similarity.num * last.val[i].similarity.den

\* search has returned two results of different similarity
C10_Witness ==
    /\ last.op = "search"
    /\ last.err = NONE
    /\ Len(last.val) >= 2
    /\ last.val[1].similarity # last.val[2].similarity
    /\ last.val[2].similarity.den < FltMax


\* the chunks answer_question of the last call got from retrieve_context
Retrieved == retrieve_context(Now, config, last.query, AnswerTopK(last.top_k))

\* C11: a failure of the QA step is not propagated: answer_question returns an
\* answer that embeds the failure message, with confidence 0 and empty context
\* and sources.
C11_QAFailureIsCaptured ==
    (last.op = "answer_question" /\ last.qa.raised
        /\ Retrieved.err = NONE /\ Retrieved.val # <<>>) =>
        /\ last.err = NONE
        /\ Len(last.val.answer) = 2
        /\ last.val.answer[2] = last.qa.message
        /\ last.val.confidence = 0
        /\ last.val.context = <<>>
        /\ last.val.sources = {}

\* answer_question has called the QA pipeline on retrieved chunks, and it raised
C11_Witness ==
    /\ last.op = "answer_question"
    /\ last.qa.raised
    /\ Retrieved.err = NONE
    /\ Len(Retrieved.val) >= 2
    /\ last.steps = <<"retrieve_context", "qa_pipeline">>

\* C12: when retrieval yields no chunk, answer_question returns the fixed "no
\* relevant information" answer with confidence 0 and empty context and
\* sources, and the QA pipeline is not called.
C12_NoContextFallback ==
    (last.op = "answer_question" /\ Retrieved.err = NONE /\ Retrieved.val = <<>>) =>
        /\ last.err = NONE
        /\ last.val.answer
               = <<"No relevant information found in the contract documents.">>
        /\ last.val.confidence = 0
        /\ last.val.context = <<>>
        /\ last.val.sources = {}
        /\ \A i \in 1..Len(last.steps) : last.steps[i] # "qa_pipeline"

\* a question on a built index of which no chunk clears the threshold, asked
\* when the QA pipeline would raise
C12_Witness ==
    /\ last.op = "answer_question"
    /\ ntotal(index) >= 2
    /\ search(Now, last.query, last.search_k).err = NONE
    /\ Retrieved.err = NONE
    /\ Retrieved.val = <<>>
    /\ last.qa.raised
    /\ last.err = NONE

\* answer_question of the last call returned the answer of the QA pipeline
Answered ==
    /\ last.op = "answer_question"
    /\ last.err = NONE
    /\ ~last.qa.raised
    /\ last.steps = <<"retrieve_context", "qa_pipeline">>

\* the first n characters of t
FirstChars(t, n) == [j \in 1..Min(n, Len(t)) |-> t[j]]

Window(d, s) ==
    LET content == clean_text(last.docs[d].content)
    IN  [j \in 1..(Min(s + config.chunk_size, Len(content)) - s) |-> content[s + j]]

\* the starts of the windows of document d
Starts(d) ==
    {s \in 0..(Len(clean_text(last.docs[d].content)) - 1) :
        s % (config.chunk_size - config.chunk_overlap) = 0}

\* C14: the chunk_id values of one chunk_documents call are 0..n-1 in output
\* order: chunk i has chunk_id i, across document boundaries and across windows
\* discarded as empty.
C14_ChunkIdsAreContiguous ==
    last.op = "chunk_documents" =>
        \A i \in 1..Len(last.val) : last.val[i].chunk_id = i - 1

\* two documents that both gave chunks, three chunks or more, a window of the
\* first document discarded as empty
C14_Witness ==
    /\ last.op = "chunk_documents"
    /\ Len(last.docs) = 2
    /\ Len(last.val) >= 3
    /\ last.val[1].source = "d1.txt"
    /\ last.val[Len(last.val)].source = "d2.txt"
    /\ \E s \in Starts(1) : Strip(Window(1, s)) = <<>>

\* C15: for chunk_overlap < chunk_size, every chunk of chunk_documents is the
\* trimmed window content[s : s + chunk_size] of the cleaned text of a document,
\* for a start s that is a multiple of chunk_size - chunk_overlap; its text is
\* not empty, has at most chunk_size characters, and its source is the filename
\* of that document.
C15_ChunkIsTrimmedWindow ==
    (last.op = "chunk_documents" /\ config.chunk_overlap < config.chunk_size) =>
        \A i \in 1..Len(last.val) :
            /\ last.val[i].text # <<>>
            /\ Len(last.val[i].text) <= config.chunk_size
            /\ ~IsSpace(last.val[i].text[1])
            /\ ~IsSpace(last.val[i].text[Len(last.val[i].text)])
            /\ \E d \in 1..Len(last.docs) :
                  /\ last.val[i].source = last.docs[d].filename
                  /\ \E s \in Starts(d) : last.val[i].text = Strip(Window(d, s))

\* overlapping windows, and a chunk that is a window after the first one, trimmed
\* of white space
C15_Witness ==
    /\ last.op = "chunk_documents"
    /\ config.chunk_overlap > 0
    /\ Len(last.val) >= 2
    /\ \E i \in 1..Len(last.val), d \in 1..Len(last.docs) :
          /\ last.val[i].source = last.docs[d].filename
          /\ \E s \in Starts(d) :
                /\ s > 0
                /\ last.val[i].text = Strip(Window(d, s))
                /\ Len(last.val[i].text) < Len(Window(d, s))

\* build_index of the last build returned: save_index was reached
BuildIndexDone == last.op = "build_knowledge_base" /\ Len(last.steps) = 4

\* C16: a build_index that succeeds replaces what the instance held: metadata
\* is the chunk list of this build in order, and the index holds one vector per
\* chunk at the same position, the encoding of that chunk, and nothing else.
C16_BuildReplacesWholesale ==
    BuildIndexDone =>
        /\ metadata = last.chunks
        /\ index.set
        /\ ntotal(index) = Len(last.chunks)
        /\ \A i \in 1..Len(last.chunks) : index.xb[i] = Encode(last.chunks[i].text)

\* a build on an instance that held an index, of chunks other than those of the
\* metadata file an earlier build wrote (the save of this build stopped before it)
C16_Witness ==
    /\ BuildIndexDone
    /\ ~last.fresh
    /\ Len(last.chunks) >= 2
    /\ last.at = "write_index"
    /\ metaFile.state = "ok"
    /\ Unpickle(metaFile) # metadata

\* C17: save_index makes the missing parent directories of both persisted
\* locations, also when the two differ: met by no fault of the file system, it
\* succeeds and both files exist afterwards.
C17_SaveCreatesBothParents ==
    BuildIndexDone =>
        /\ last.err = NONE
        /\ indexFile.state = "ok"
        /\ metaFile.state = "ok"
        /\ {config.index_dir, config.meta_dir} \subseteq dirs

\* C18: load_index raises FileNotFoundError whenever the index file or the
\* metadata file is absent, and then leaves the index and the metadata in
\* memory as they were.
C18_LoadNeedsBothFiles ==
    [][(last'.op = "load_knowledge_base"
           /\ (indexFile.state = "absent" \/ metaFile.state = "absent")) =>
          /\ last'.err = "FileNotFoundError"
          /\ UNCHANGED <<index, metadata, indexFile, metaFile>>]_vars

\* a load that raised FileNotFoundError beside an index file that is there, on
\* an instance that holds an index and its metadata
C18_Witness ==
    /\ last.op = "load_knowledge_base"
    /\ last.err = "FileNotFoundError"
    /\ indexFile.state = "ok"
    /\ metaFile.state = "absent"
    /\ index.set
    /\ Len(metadata) >= 2

\* the instance holds the index and the metadata a build_knowledge_base that
\* returned has left
AfterSuccessfulBuild ==
    /\ saver.valid
    /\ index = saver.index
    /\ metadata = saver.metadata

\* C19: after a successful build_knowledge_base, answer_question returns for
\* every question, without raising, a dict with a string answer and with
\* confidence, context and sources, on each of its three paths (no context, QA
\* success, QA failure).
C19_AnswerAfterBuildReturns ==
    (last.op = "answer_question" /\ AfterSuccessfulBuild) =>
        /\ last.err = NONE
        /\ DOMAIN last.val = {"answer", "confidence", "context", "sources"}
        /\ last.val.answer # <<>>
        /\ \A i \in 1..Len(last.val.answer) : last.val.answer[i] \in STRING
        /\ \/ last.val = NoContextAnswer
           \/ last.val = QAErrorAnswer(last.qa)
           \/ last.val = QAAnswer(last.qa, Retrieved.val)

\* a question after a successful build that asks for more chunks than the index
\* holds, answered on the path where the QA pipeline raises
C19_Witness ==
    /\ last.op = "answer_question"
    /\ AfterSuccessfulBuild
    /\ last.search_k > ntotal(index)
    /\ last.qa.raised
    /\ last.steps = <<"retrieve_context", "qa_pipeline">>
    /\ last.err = NONE

\* the number of characters of t from its first to its last character that is
\* not white space
TrimmedLen(t) ==
    LET ink == {i \in 1..Len(t) : ~IsSpace(t[i])}
    IN  IF ink = {} THEN 0
        ELSE (CHOOSE i \in ink : \A j \in ink : j <= i)
                 - (CHOOSE i \in ink : \A j \in ink : i <= j) + 1

\* a question request to a front-end
WebAsk == last.op \in {"flask_ask_question", "django_ask"}

\* C20: in both web front-ends the handler rejects a question that is empty
\* after trimming or longer than 500 characters, and answer_question is never
\* called with such a question.
C20_WebRejectsBadQuestions ==
    WebAsk =>
        /\ (TrimmedLen(last.raw) = 0 \/ TrimmedLen(last.raw) > 500) =>
              /\ ~last.val.called
              /\ last.op = "flask_ask_question" => last.val.status = 400
              /\ last.op = "django_ask" => last.val.page = "django_index.html"
        /\ last.val.called =>
              /\ last.val.question # <<>>
              /\ Len(last.val.question) <= 500
              /\ ~IsSpace(last.val.question[1])
              /\ ~IsSpace(last.val.question[Len(last.val.question)])

\* a request rejected for a question of more than 500 characters between white
\* space, on a knowledge base that is built and saved
C20_Witness ==
    /\ WebAsk
    /\ TrimmedLen(last.raw) = 501
    /\ Len(last.raw) > 501
    /\ index.set
    /\ saver.valid
    /\ ~last.val.called

\* the upload request stands between the two assignments of build_index
InBuildWindow == upload.pc \in {"add", "assign_metadata"}

\* the neighbour positions the index gives the last search
Found == IndexSearch(index, Encode(last.query), last.search_k)

\* C21: a search can run between the assignment of the fresh index and the
\* assignment of the new metadata in build_index: there the index is the one
\* of the running build and the metadata list the one from before it, and the
\* search resolves the positions of the one in the other: it returns the old
\* entry at each position, or raises IndexError for a position out of range.
C21_SearchRacesBuild ==
    InBuildWindow =>
        /\ index.set
        /\ index.xb = IF upload.pc = "add" THEN <<>> ELSE UploadEmbeddings.rows
        /\ metadata = upload.before
        /\ last.op = "search" =>
              IF \E i \in 1..Len(Found) : ~InRange(upload.before, Found[i].idx)
              THEN last.err = "IndexError"
              ELSE /\ last.err = NONE
                   /\ Len(last.val) = Len(Found)
                   /\ \A i \in 1..Len(Found) :
                         /\ last.val[i].text = At(upload.before, Found[i].idx).text
                         /\ last.val[i].chunk_id
                               = At(upload.before, Found[i].idx).chunk_id

\* a search in the window that returned, for a vector of the running build, a
\* chunk of the build before: a text that this vector does not encode
C21_Witness ==
    /\ upload.pc = "assign_metadata"
    /\ last.op = "search"
    /\ last.err = NONE
    /\ \E i \in 1..Len(Found) :
          /\ Found[i].idx >= 0
          /\ Encode(last.val[i].text) # index.xb[Found[i].idx + 1]
          /\ last.val[i].text # upload.chunks[Found[i].idx + 1].text

\* C22: save_index is not atomic over its two files: stopped after the index
\* file is written and before the metadata file is, it leaves the new index
\* file beside the older metadata file; a later load_index takes any pair of
\* readable files without error, so that the index it sets can hold a number
\* of vectors other than len(metadata).
C22_SaveIsNotAtomic ==
    [][/\ (last'.op = "build_knowledge_base" /\ last'.at = "open") =>
              /\ indexFile' = WriteIndex(index')
              /\ metaFile' = metaFile
       /\ (last'.op = "load_knowledge_base"
              /\ indexFile.state = "ok" /\ metaFile.state = "ok") =>
              /\ last'.err = NONE
              /\ index' = ReadIndex(indexFile)
              /\ metadata' = Unpickle(metaFile)]_vars

\* a load that returned, of the files a stopped save left beside an older
\* metadata file: the index holds a number of vectors other than len(metadata)
C22_Witness ==
    /\ last.op = "load_knowledge_base"
    /\ last.err = NONE
    /\ ~saver.valid
    /\ index = ReadIndex(indexFile)
    /\ metadata = Unpickle(metaFile)
    /\ ntotal(index) # Len(metadata)

\* C23: for every built index and every k, also k greater than the number of
\* indexed chunks, search returns only real neighbours: at most
\* min(k, number of chunks) results, each for a distinct indexed chunk, so that
\* no chunk_id appears twice in one result list.
C23_SearchReturnsRealNeighbours ==
    (last.op = "search" /\ AfterSuccessfulBuild) =>
        /\ last.err = NONE
        /\ Len(last.val) <= Min(last.search_k, ntotal(index))
        /\ \A i, j \in 1..Len(last.val) :
              i # j => last.val[i].chunk_id # last.val[j].chunk_id

\* C24: clean_text is a normal form: its result has no two white-space
\* characters in a row and none at its start or its end, and cleaning it again
\* changes nothing, also when control characters stand between spaces.
C24_CleanTextIsNormalForm ==
    last.op = "clean_text" =>
        /\ \A i \in 1..(Len(last.val) - 1) :
              ~(IsSpace(last.val[i]) /\ IsSpace(last.val[i + 1]))
        /\ last.val # <<>> =>
              ~IsSpace(last.val[1]) /\ ~IsSpace(last.val[Len(last.val)])
        /\ clean_text(last.val) = last.val

\* the chunks of document d in the result of the last chunk_documents call
ChunksOf(d) == SelectSeq(last.val, LAMBDA c : c.source = last.docs[d].filename)

\* the starts of the windows of document d that hold more than white space
KeptStarts(d) == {s \in Starts(d) : \E j \in 1..Len(Window(d, s)) : ~IsSpace(Window(d, s)[j])}

\* the i-th of them, in increasing order
KeptStart(d, i) ==
    CHOOSE s \in KeptStarts(d) : Cardinality({u \in KeptStarts(d) : u < s}) = i - 1

\* C25: for 0 <= chunk_overlap < chunk_size, chunk_documents loses no text: the
\* chunks of a document are its windows that hold more than white space, in
\* increasing start order, and every character of the cleaned text that is not
\* white space lies in the window of one of them.
C25_ChunksCoverText ==
    (last.op = "chunk_documents" /\ config.chunk_overlap < config.chunk_size) =>
        \A d \in 1..Len(last.docs) :
            /\ Len(ChunksOf(d)) = Cardinality(KeptStarts(d))
            /\ \A i \in 1..Len(ChunksOf(d)) :
                  ChunksOf(d)[i].text = Strip(Window(d, KeptStart(d, i)))
            /\ \A p \in 1..Len(clean_text(last.docs[d].content)) :
                  ~IsSpace(clean_text(last.docs[d].content)[p]) =>
                      \E i \in 1..Len(ChunksOf(d)) :
                          /\ KeptStart(d, i) < p
                          /\ p <= KeptStart(d, i) + config.chunk_size
                          /\ \E j \in 1..Len(ChunksOf(d)[i].text) :
                                ChunksOf(d)[i].text[j]
                                    = clean_text(last.docs[d].content)[p]

\* windows without overlap over two documents: the first gives two chunks or
\* more and has a window dropped as white space, the second gives a chunk
C25_Witness ==
    /\ last.op = "chunk_documents"
    /\ config.chunk_overlap = 0
    /\ Len(last.docs) = 2
    /\ Len(ChunksOf(1)) >= 2
    /\ Cardinality(Starts(1)) > Cardinality(KeptStarts(1))
    /\ Len(ChunksOf(2)) >= 1

=============================================================================
